---- MODULE Spec2Model ----
(***************************************************************************)
(* Model of the MCP client engine (pkg/client/client.go) running on top of *)
(* a stream transport.  Caller tasks run the public operations of one      *)
(* Client concurrently; every step between two points where the Go code    *)
(* can be interleaved (lock-protected section, atomic add, one transport   *)
(* call) is one action.  The comparison of ids (isMatchingID) and the two  *)
(* HTTP transports (pkg/transport/http_streaming.go, SSETransport) have    *)
(* specifications of their own over their own variables.                   *)
(***************************************************************************)
EXTENDS Integers, Sequences, FiniteSets, TLC

\* ---------------------------------------------------------------- bounds
NumCallers == 2
MaxRequests == 3
MaxWire == 2
MaxTools == 6
MaxPageSize == 3

Callers == 1..NumCallers

NumTasks == 2
Tasks == 1..NumTasks

\* ------------------------------------------------------------- vocabulary
RequestOps == {"tools/list", "tools/call", "resources/list", "resources/read",
               "prompts/list", "prompts/get"}

NoOp == "none"

\* the dynamic type of a decoded Message.ID (interface{})
NilID == [type |-> "nil", num |-> 0, tenths |-> 0, text |-> <<>>]
FloatID(n, t) == [type |-> "float64", num |-> n, tenths |-> t, text |-> <<>>]
StringID(s) == [type |-> "string", num |-> 0, tenths |-> 0, text |-> s]

Digits == <<"0", "1", "2", "3", "4", "5", "6", "7", "8", "9">>

IsDigit(ch) == \E i \in 1..10 : Digits[i] = ch

DigitVal(ch) == (CHOOSE i \in 1..10 : Digits[i] = ch) - 1

RECURSIVE DigitsVal(_)
DigitsVal(s) ==
  IF s = <<>> THEN 0
  ELSE 10 * DigitsVal(SubSeq(s, 1, Len(s) - 1)) + DigitVal(s[Len(s)])

\* strconv.ParseInt(id, 10, 64): optional sign, then one or more digits
ParseIntOk(s) ==
  LET body == IF s # <<>> /\ s[1] \in {"+", "-"} THEN Tail(s) ELSE s
  IN  body # <<>> /\ \A i \in 1..Len(body) : IsDigit(body[i])

ParseInt(s) ==
  IF s[1] = "-" THEN 0 - DigitsVal(Tail(s))
  ELSE IF s[1] = "+" THEN DigitsVal(Tail(s))
  ELSE DigitsVal(s)

\* isMatchingID comparing with <= : also accepts the id of an earlier request
isMatchingIDStale(responseID, requestID) ==
  CASE responseID.type = "nil" -> FALSE
    [] responseID.type = "float64" -> responseID.num <= requestID
    [] responseID.type = "string" ->
         IF ParseIntOk(responseID.text)
         THEN ParseInt(responseID.text) <= requestID ELSE FALSE
    [] OTHER -> FALSE

\* Client.isMatchingID: int64(float64) truncates toward zero
isMatchingID(responseID, requestID) ==
  CASE responseID.type = "nil" -> FALSE
    [] responseID.type = "int64" -> responseID.num = requestID
    [] responseID.type = "float64" -> responseID.num = requestID
    [] responseID.type = "int" -> responseID.num = requestID
    [] responseID.type = "string" ->
         IF ParseIntOk(responseID.text)
         THEN ParseInt(responseID.text) = requestID ELSE FALSE
    [] OTHER -> FALSE

\* the integer a wire id denotes (0: none)
IDNumber(id) ==
  CASE id.type = "float64" /\ id.tenths = 0 -> id.num
    [] id.type = "string" /\ ParseIntOk(id.text) -> ParseInt(id.text)
    [] OTHER -> 0

\* mcp.Message as it is read off the transport
Response(id, kind) == [id |-> id, method |-> "", kind |-> kind]

NoResult == [kind |-> "none", id |-> NilID]

\* a tools operation and its arguments: ListToolsWithCursor(ctx, cursor),
\* CallTool(ctx, name, arguments)
NoCall == [op |-> "none", cursor |-> 0, name |-> 0]

\* mcp.Message with the fields of the tools requests and responses; a cursor
\* is the position after the last tool already listed, 0 standing for the
\* empty cursor
NoMessage ==
  [id |-> NilID, method |-> "", cursor |-> 0, name |-> 0, kind |-> "none",
   tools |-> <<>>, nextCursor |-> 0, message |-> <<>>]

\* (value, error) as an operation returns them: value nil / error nil
NoReturn == [hasValue |-> FALSE, value |-> <<>>, err |-> <<>>]
Outcome(kind, id) == [kind |-> kind, id |-> id]

VARIABLES
  connected,        \* Client.connected
  initialized,      \* Client.initialized
  serverInfo,       \* Client.serverInfo / serverCapabilities (set together)
  requestID,        \* Client.requestID
  tConnected,       \* Transport.IsConnected()
  broken,           \* the underlying channel has failed
  wire,             \* messages written by the peer, not yet read by Receive
  peerInbox,        \* ids of the requests the peer has read and not answered
  dropped,          \* <<id dropped by handleMessage, id its reader waited for>>
  abandoned,        \* ids of the requests whose caller returned a timeout
  pc,               \* position of every caller task
  op,               \* the operation a caller is running
  reqId,            \* sendRequest's local requestID
  expired,          \* responseCtx.Done() is ready
  interrupted,      \* the connection a blocked Receive reads from was closed
  result,           \* what the operation returned
  srvTools,         \* the tools the peer holds, in the order it lists them
  pageSize,         \* the number of tools the peer puts on one page
  call,             \* the tools operation running on the session, with its arguments
  callPc,           \* its position
  sent,             \* the requests it has handed to Transport.Send
  inflight,         \* the request the peer is to read / the response it wrote
  ret,              \* what it returned: value and error
  responseID,       \* isMatchingID's argument responseID
  pendingID,        \* isMatchingID's argument requestID
  matched,          \* what isMatchingID returned
  idPc,             \* whether isMatchingID has been applied
  variant,          \* the HTTP transport in use: StreamingHTTPTransport or SSETransport
  hConnected,       \* its field connected
  hSessionID,       \* StreamingHTTPTransport.sessionID
  hSessionURL,      \* SSETransport.sessionURL
  hInitialized,     \* its field initialized
  hLastResponse,    \* its field lastResponse
  hSseConnection,   \* SSETransport.sseConnection is not nil
  stream,           \* events of the retained SSE stream not yet read
  sendSeq,          \* the number of Send calls made so far
  issued,           \* the session token the server sent last since Close
  handshook,        \* an initialize Send has returned nil since Close
  answered,         \* the Send whose POST was the last to be answered
  hCall,            \* the last call on the transport and what it did
  unsolicited,      \* the number of messages the peer sent unasked
  openStreams,      \* the event-stream connections opened and not closed
  evSeq,            \* the JSON events the server has written on the stream
  delivered,        \* the number of the stream event Receive returned last
  tpc,              \* position of every task calling the transport
  tlocal,           \* Receive's local variable response
  got               \* the message the task's Receive returned

clientVars == <<connected, initialized, serverInfo, requestID, tConnected,
                broken, wire, peerInbox, dropped, abandoned, pc, op, reqId,
                expired, interrupted, result>>

toolVars == <<srvTools, pageSize, call, callPc, sent, inflight, ret>>

idVars == <<responseID, pendingID, matched, idPc>>

httpVars == <<variant, hConnected, hSessionID, hSessionURL, hInitialized,
              hLastResponse, hSseConnection, stream, sendSeq, issued,
              handshook, answered, hCall, openStreams, evSeq, delivered>>

\* the event streams of the SSE transport as the server sees them
streams == <<openStreams, evSeq, delivered>>

concVars == <<tpc, tlocal, got>>

vars == <<clientVars, toolVars, idVars, httpVars, unsolicited, concVars>>

\* what the actions of one specification leave alone
besideClient == <<toolVars, idVars, httpVars, unsolicited, concVars>>
besideTools == <<idVars, httpVars, unsolicited, concVars>>
besideID == <<clientVars, toolVars, httpVars, unsolicited, concVars>>
besideHTTP == <<clientVars, toolVars, idVars, unsolicited, concVars>>

\* no id comparison is under way
IDIdle ==
  /\ responseID = NilID
  /\ pendingID = 0
  /\ matched = FALSE
  /\ idPc = "idle"

\* lastResponse == nil
NoResponse == [src |-> "none", n |-> 0]

NoHTTPCall == [op |-> "none", method |-> "", err |-> "nil", requests |-> <<>>,
               msg |-> NoResponse]

\* a transport as NewStreamingHTTPTransport / NewSSETransport returns it
HTTPFresh ==
  /\ hConnected = FALSE
  /\ hSessionID = ""
  /\ hSessionURL = ""
  /\ hInitialized = FALSE
  /\ hLastResponse = NoResponse
  /\ hSseConnection = FALSE
  /\ stream = <<>>
  /\ sendSeq = 0
  /\ issued = ""
  /\ handshook = FALSE
  /\ answered = 0
  /\ hCall = NoHTTPCall
  /\ openStreams = 0
  /\ evSeq = 0
  /\ delivered = 0
  /\ tpc = [t \in Tasks |-> "idle"]
  /\ tlocal = [t \in Tasks |-> NoResponse]
  /\ got = [t \in Tasks |-> NoResponse]

\* no HTTP transport is in use
HTTPIdle ==
  /\ variant = "none"
  /\ HTTPFresh

session == <<connected, initialized, serverInfo>>
transportVars == <<tConnected, broken, wire, peerInbox>>
locals == <<op, reqId, expired, interrupted, result>>

\* a Client as NewClient returns it, no task running
ClientIdle ==
  /\ connected = FALSE
  /\ initialized = FALSE
  /\ serverInfo = "nil"
  /\ requestID = 0
  /\ tConnected = FALSE
  /\ broken = FALSE
  /\ wire = <<>>
  /\ peerInbox = {}
  /\ dropped = {}
  /\ abandoned = {}
  /\ pc = [c \in Callers |-> "idle"]
  /\ op = [c \in Callers |-> NoOp]
  /\ reqId = [c \in Callers |-> 0]
  /\ expired = [c \in Callers |-> FALSE]
  /\ interrupted = [c \in Callers |-> FALSE]
  /\ result = [c \in Callers |-> NoResult]
  /\ unsolicited = 0

\* no tools operation is under way
ToolsIdle ==
  /\ srvTools = <<>>
  /\ pageSize = 1
  /\ call = NoCall
  /\ callPc = "idle"
  /\ sent = <<>>
  /\ inflight = NoMessage
  /\ ret = NoReturn

Init ==
  /\ ClientIdle
  /\ ToolsIdle
  /\ IDIdle
  /\ HTTPIdle

\* ------------------------------------------------------------ the transport
\* Transport.IsConnected(): the flag Connect sets and Close clears
IsConnectedTransport == tConnected

\* the calls of a request operation that are still to issue their id
Starting == {c \in Callers : pc[c] \in {"checkconn", "newid"}}

CanStart == requestID + Cardinality(Starting) < MaxRequests

Finish(c, kind, id) ==
  /\ pc' = [pc EXCEPT ![c] = "done"]
  /\ result' = [result EXCEPT ![c] = Outcome(kind, id)]

\* ------------------------------------------------------------ Client.Connect
\* Connect and Disconnect return the error kind "nil" for a nil error.
\* Connect whose failure path marks the session connected all the same
ConnectFailedMarked(c) ==
  /\ connected' = TRUE
  /\ UNCHANGED <<tConnected, broken, wire, peerInbox>>
  /\ Finish(c, "connecterror", NilID)

\* return fmt.Errorf("failed to connect: %w", err)
ConnectFailed(c) ==
  /\ UNCHANGED <<connected, tConnected, broken, wire, peerInbox>>
  /\ Finish(c, "connecterror", NilID)

\* c.mu is held throughout.  Transport.Connect is a no-op on a transport that
\* is already connected; otherwise it opens a fresh connection or fails.
Connect(c) ==
  /\ pc[c] = "idle"
  /\ op' = [op EXCEPT ![c] = "connect"]
  /\ IF connected
     THEN /\ UNCHANGED <<connected, tConnected, broken, wire, peerInbox>>
          /\ Finish(c, "nil", NilID)
     ELSE IF tConnected
          THEN /\ connected' = TRUE
               /\ UNCHANGED <<tConnected, broken, wire, peerInbox>>
               /\ Finish(c, "nil", NilID)
          ELSE \/ /\ tConnected' = TRUE
                  /\ broken' = FALSE
                  /\ wire' = <<>>
                  /\ peerInbox' = {}
                  /\ connected' = TRUE
                  /\ Finish(c, "nil", NilID)
               \/ ConnectFailed(c)
  /\ UNCHANGED <<initialized, serverInfo, requestID, dropped, abandoned,
                 reqId, expired, interrupted>>
  /\ UNCHANGED besideClient

\* --------------------------------------------------------- Client.Disconnect
\* c.mu is held throughout.  Transport.Close drops what was in flight and
\* makes every Receive blocked on the connection return an error.
Disconnect(c) ==
  /\ pc[c] = "idle"
  /\ op' = [op EXCEPT ![c] = "disconnect"]
  /\ IF ~connected
     THEN UNCHANGED <<session, tConnected, wire, peerInbox, interrupted>>
     ELSE /\ tConnected' = FALSE
          /\ wire' = <<>>
          /\ peerInbox' = {}
          /\ interrupted' = [d \in Callers |-> interrupted[d] \/ pc[d] = "receive"]
          /\ connected' = FALSE
          /\ initialized' = FALSE
          /\ serverInfo' = "nil"
  /\ Finish(c, "nil", NilID)
  /\ UNCHANGED <<requestID, broken, dropped, abandoned, reqId, expired>>
  /\ UNCHANGED besideClient


\* ------------------------------------------- Client.CheckConnection (locked)
\* CheckConnection that reports the dead transport and leaves the session as
\* it is
CheckConnectionNoMark(c) ==
  /\ pc[c] = "checkconn"
  /\ IF ~IsConnectedTransport
     THEN /\ UNCHANGED <<connected, initialized>>
          /\ Finish(c, "conncheck", NilID)
     ELSE /\ pc' = [pc EXCEPT ![c] = "newid"]
          /\ UNCHANGED <<connected, initialized, result>>
  /\ UNCHANGED <<serverInfo, requestID, transportVars, dropped, abandoned, op, reqId,
                 expired, interrupted>>
  /\ UNCHANGED besideClient

CheckConnection(c) ==
  /\ pc[c] = "checkconn"
  /\ IF ~IsConnectedTransport
     THEN /\ connected' = FALSE
          /\ initialized' = FALSE
          /\ Finish(c, "conncheck", NilID)
     ELSE /\ pc' = [pc EXCEPT ![c] = "newid"]
          /\ UNCHANGED <<connected, initialized, result>>
  /\ UNCHANGED <<serverInfo, requestID, transportVars, dropped, abandoned, op, reqId,
                 expired, interrupted>>
  /\ UNCHANGED besideClient

\* Client.IsInitialized / Client.IsConnected (read-locked)
\* IsInitialized with the guard lost
IsInitializedAlways == TRUE

IsInitialized == initialized

\* IsConnected with the guard lost
IsConnectedAlways == TRUE

IsConnected == connected

\* -------------------------------------------------------- Client.Initialize
\* entry of Initialize: the IsConnected guard
StartInitialize(c) ==
  /\ pc[c] = "idle"
  /\ CanStart
  /\ op' = [op EXCEPT ![c] = "initialize"]
  /\ IF ~IsConnected
     THEN Finish(c, "notconnected", NilID)
     ELSE /\ pc' = [pc EXCEPT ![c] = "newid"]
          /\ UNCHANGED result
  /\ UNCHANGED <<session, requestID, transportVars, dropped, abandoned, reqId, expired,
                 interrupted>>
  /\ UNCHANGED besideClient

\* ------- entry of ListToolsWithCursor, CallTool, ListResources, ListPrompts,
\* ------- GetPrompt, ReadResource: the IsInitialized guard
StartRequestOp(c, m) ==
  /\ pc[c] = "idle"
  /\ CanStart
  /\ op' = [op EXCEPT ![c] = m]
  /\ IF ~IsInitialized
     THEN Finish(c, "notinitialized", NilID)
     ELSE /\ pc' = [pc EXCEPT ![c] = IF m = "tools/call" THEN "checkconn"
                                      ELSE "newid"]
          /\ UNCHANGED result
  /\ UNCHANGED <<session, requestID, transportVars, dropped, abandoned, reqId, expired,
                 interrupted>>
  /\ UNCHANGED besideClient

\* ------------------------------------------------------- Client.sendRequest
\* sendRequest reading the counter without advancing it
NewRequestIDReused(c) ==
  /\ pc[c] = "newid"
  /\ requestID' = requestID
  /\ reqId' = [reqId EXCEPT ![c] = requestID + 1]
  /\ pc' = [pc EXCEPT ![c] = "isconn"]
  /\ UNCHANGED <<session, transportVars, dropped, abandoned, op, expired, interrupted,
                 result>>
  /\ UNCHANGED besideClient

\* requestID := atomic.AddInt64(&c.requestID, 1)
NewRequestID(c) ==
  /\ pc[c] = "newid"
  /\ requestID' = requestID + 1
  /\ reqId' = [reqId EXCEPT ![c] = requestID + 1]
  /\ pc' = [pc EXCEPT ![c] = "isconn"]
  /\ UNCHANGED <<session, transportVars, dropped, abandoned, op, expired, interrupted,
                 result>>
  /\ UNCHANGED besideClient

\* if !c.transport.IsConnected() { return error }
CheckTransport(c) ==
  /\ pc[c] = "isconn"
  /\ IF ~IsConnectedTransport
     THEN Finish(c, "transportdisconnected", NilID)
     ELSE /\ pc' = [pc EXCEPT ![c] = "send"]
          /\ UNCHANGED result
  /\ UNCHANGED <<session, requestID, transportVars, dropped, abandoned, op, reqId,
                 expired, interrupted>>
  /\ UNCHANGED besideClient

\* c.transport.Send(request)
SendRequest(c) ==
  /\ pc[c] = "send"
  /\ IF tConnected /\ ~broken
     THEN /\ peerInbox' = peerInbox \cup {reqId[c]}
          /\ pc' = [pc EXCEPT ![c] = "select"]
     ELSE /\ pc' = [pc EXCEPT ![c] = "sendfailed"]
          /\ UNCHANGED peerInbox
  /\ UNCHANGED <<session, requestID, tConnected, broken, wire, dropped,
                 abandoned, locals>>
  /\ UNCHANGED besideClient

\* MarkDisconnected that forgets c.initialized = false
MarkDisconnectedPartial(c, kind) ==
  /\ connected' = FALSE
  /\ UNCHANGED initialized
  /\ Finish(c, kind, NilID)

\* c.mu.Lock(); c.connected = false; c.initialized = false; c.mu.Unlock();
\* return nil, err
MarkDisconnected(c, kind) ==
  /\ connected' = FALSE
  /\ initialized' = FALSE
  /\ Finish(c, kind, NilID)

SendFailed(c) ==
  /\ pc[c] = "sendfailed"
  /\ MarkDisconnected(c, "senderror")
  /\ UNCHANGED <<serverInfo, requestID, transportVars, dropped, abandoned, op, reqId,
                 expired, interrupted>>
  /\ UNCHANGED besideClient

\* sendRequest marking the session disconnected when the wait times out
SelectTimeoutDisconnects(c) ==
  /\ pc[c] = "select"
  /\ IF expired[c]
     THEN /\ Finish(c, "timeout", NilID)
          /\ abandoned' = abandoned \cup {reqId[c]}
          /\ connected' = FALSE
          /\ initialized' = FALSE
          /\ UNCHANGED interrupted
     ELSE /\ pc' = [pc EXCEPT ![c] = "receive"]
          /\ interrupted' = [interrupted EXCEPT ![c] = FALSE]
          /\ UNCHANGED <<connected, initialized, result, abandoned>>
  /\ UNCHANGED <<serverInfo, requestID, transportVars, dropped, op, reqId,
                 expired>>
  /\ UNCHANGED besideClient

\* select { case <-responseCtx.Done(): ... default: ... }
Select(c) ==
  /\ pc[c] = "select"
  /\ IF expired[c]
     THEN /\ Finish(c, "timeout", NilID)
          /\ abandoned' = abandoned \cup {reqId[c]}
          /\ UNCHANGED interrupted
     ELSE /\ pc' = [pc EXCEPT ![c] = "receive"]
          /\ interrupted' = [interrupted EXCEPT ![c] = FALSE]
          /\ UNCHANGED <<result, abandoned>>
  /\ UNCHANGED <<session, requestID, transportVars, dropped, op, reqId,
                 expired>>
  /\ UNCHANGED besideClient

\* an operation that takes every response without an error object for a success
ResponseOutcomeNilResult(msg) == IF msg.kind = "error" THEN "rpcerror" ELSE "ok"

\* what the operation makes of the response sendRequest returned:
\* response.Error != nil, then parseResult(response.Result, ...), whose first
\* test is result == nil
ResponseOutcome(msg) ==
  IF msg.kind = "error" THEN "rpcerror"
  ELSE IF msg.kind = "result" THEN "ok"
  ELSE "parseerror"

\* Initialize that stores whatever response carries its id
InitializeAcceptsAny(msg) == TRUE

\* Initialize: response.Error == nil and parseResult(response.Result) succeeds
InitializeAccepts(msg) == msg.kind = "result"

\* c.transport.Receive() returned a message
ReceiveMessage(c) ==
  /\ pc[c] = "receive"
  /\ tConnected /\ ~broken /\ ~interrupted[c]
  /\ wire # <<>>
  /\ wire' = Tail(wire)
  /\ LET msg == Head(wire) IN
       IF isMatchingID(msg.id, reqId[c])
       THEN /\ IF op[c] = "initialize" /\ InitializeAccepts(msg)
               THEN /\ pc' = [pc EXCEPT ![c] = "setinitialized"]
                    /\ result' = [result EXCEPT ![c] = Outcome("response", msg.id)]
               ELSE Finish(c, ResponseOutcome(msg), msg.id)
            /\ UNCHANGED dropped
       ELSE \* handleMessage: logs a notification, drops everything else
            /\ pc' = [pc EXCEPT ![c] = "select"]
            /\ dropped' = dropped \cup {<<IDNumber(msg.id), reqId[c]>>}
            /\ UNCHANGED result
  /\ UNCHANGED <<session, requestID, tConnected, broken, peerInbox,
                 abandoned, op, reqId, expired, interrupted>>
  /\ UNCHANGED besideClient

\* c.transport.Receive() returned an error
ReceiveError(c) ==
  /\ pc[c] = "receive"
  /\ ~tConnected \/ broken \/ interrupted[c]
  /\ pc' = [pc EXCEPT ![c] = "receivefailed"]
  /\ UNCHANGED <<session, requestID, transportVars, dropped, abandoned, locals>>
  /\ UNCHANGED besideClient

ReceiveFailed(c) ==
  /\ pc[c] = "receivefailed"
  /\ MarkDisconnected(c, "receiveerror")
  /\ UNCHANGED <<serverInfo, requestID, transportVars, dropped, abandoned, op, reqId,
                 expired, interrupted>>
  /\ UNCHANGED besideClient

\* Initialize: c.mu.Lock(); serverInfo, serverCapabilities, initialized = ...
SetInitialized(c) ==
  /\ pc[c] = "setinitialized"
  /\ serverInfo' = "server"
  /\ initialized' = TRUE
  /\ pc' = [pc EXCEPT ![c] = "notify"]
  /\ UNCHANGED <<connected, requestID, transportVars, dropped, abandoned, locals>>
  /\ UNCHANGED besideClient

\* Initialize: c.transport.Send(notifications/initialized)
SendInitializedNotification(c) ==
  /\ pc[c] = "notify"
  /\ IF tConnected /\ ~broken
     THEN Finish(c, "ok", result[c].id)
     ELSE Finish(c, "notificationerror", NilID)
  /\ UNCHANGED <<session, requestID, transportVars, dropped, abandoned, op, reqId,
                 expired, interrupted>>
  /\ UNCHANGED besideClient

\* the operation has returned to its caller
Return(c) ==
  /\ pc[c] = "done"
  /\ pc' = [pc EXCEPT ![c] = "idle"]
  /\ op' = [op EXCEPT ![c] = NoOp]
  /\ reqId' = [reqId EXCEPT ![c] = 0]
  /\ expired' = [expired EXCEPT ![c] = FALSE]
  /\ interrupted' = [interrupted EXCEPT ![c] = FALSE]
  /\ result' = [result EXCEPT ![c] = NoResult]
  /\ UNCHANGED <<session, requestID, transportVars, dropped, abandoned>>
  /\ UNCHANGED besideClient

\* ------------------------------------------------------------ environment
\* the caller's context or the operation timeout runs out
Expire(c) ==
  /\ pc[c] \in {"select", "receive"}
  /\ ~expired[c]
  /\ expired' = [expired EXCEPT ![c] = TRUE]
  /\ UNCHANGED <<session, requestID, transportVars, dropped, abandoned, pc, op, reqId,
                 interrupted, result>>
  /\ UNCHANGED besideClient

\* the peer answers one of the requests it has read, in the order it likes;
\* the id it echoes as a JSON number is decoded into a float64
PeerRespond(id, kind) ==
  /\ id \in peerInbox
  /\ tConnected /\ ~broken
  /\ Len(wire) < MaxWire
  /\ wire' = Append(wire, Response(FloatID(id, 0), kind))
  /\ peerInbox' = peerInbox \ {id}
  /\ UNCHANGED <<session, requestID, tConnected, broken, dropped, abandoned,
                 pc, locals>>
  /\ UNCHANGED besideClient

\* the underlying channel fails
TransportFail ==
  /\ tConnected /\ ~broken
  /\ broken' = TRUE
  /\ UNCHANGED <<session, requestID, tConnected, wire, peerInbox, dropped,
                 abandoned, pc, locals>>
  /\ UNCHANGED besideClient

Next ==
  \/ \E c \in Callers : Connect(c)
  \/ \E c \in Callers : Disconnect(c)
  \/ \E c \in Callers : StartInitialize(c)
  \/ \E c \in Callers : \E m \in RequestOps : StartRequestOp(c, m)
  \/ \E c \in Callers : CheckConnection(c)
  \/ \E c \in Callers : NewRequestID(c)
  \/ \E c \in Callers : CheckTransport(c)
  \/ \E c \in Callers : SendRequest(c)
  \/ \E c \in Callers : SendFailed(c)
  \/ \E c \in Callers : Select(c)
  \/ \E c \in Callers : ReceiveMessage(c)
  \/ \E c \in Callers : ReceiveError(c)
  \/ \E c \in Callers : ReceiveFailed(c)
  \/ \E c \in Callers : SetInitialized(c)
  \/ \E c \in Callers : SendInitializedNotification(c)
  \/ \E c \in Callers : Return(c)
  \/ \E c \in Callers : Expire(c)
  \/ \E id \in 1..MaxRequests : \E kind \in {"result", "error"} :
       PeerRespond(id, kind)
  \/ TransportFail

Spec == Init /\ [][Next]_vars

\* ---------------------------------------------------------------- fairness
\* a caller task that can take the next step of its operation takes it
CallerStep(c) ==
  \/ CheckConnection(c)
  \/ NewRequestID(c)
  \/ CheckTransport(c)
  \/ SendRequest(c)
  \/ SendFailed(c)
  \/ Select(c)
  \/ ReceiveMessage(c)
  \/ ReceiveError(c)
  \/ ReceiveFailed(c)
  \/ SetInitialized(c)
  \/ SendInitializedNotification(c)

FairSpec == Spec /\ \A c \in Callers : WF_vars(CallerStep(c))

\* ------------------------------------------- tools operations, one at a time
\* One caller uses a connected session sequentially against a peer that lists
\* its tools page by page and answers tools/call for the tools it knows.

\* a piece of an error text: a literal, or the tool name put in for %s
Lit(s) == [lit |-> s, tool |-> 0]
Name(n) == [lit |-> "", tool |-> n]

\* strings.Contains
Contains(text, part) ==
  \E i \in 0..(Len(text) - Len(part)) : SubSeq(text, i + 1, i + Len(part)) = part

\* mcp.NewRequest(requestID, method, params)
Request(id, method, cursor, name) ==
  [NoMessage EXCEPT !.id = FloatID(id, 0), !.method = method,
                    !.cursor = cursor, !.name = name, !.kind = "request"]

ReturnValue(v) == [hasValue |-> TRUE, value |-> v, err |-> <<>>]
ReturnError(e) == [hasValue |-> FALSE, value |-> <<>>, err |-> e]

\* the session of ToolsSpec: connected, and either initialized by a handshake
\* (request 1) or not yet
ToolsInit ==
  /\ connected = TRUE
  /\ initialized \in BOOLEAN
  /\ serverInfo = IF initialized THEN "server" ELSE "nil"
  /\ requestID = IF initialized THEN 1 ELSE 0
  /\ tConnected = TRUE
  /\ broken = FALSE
  /\ wire = <<>>
  /\ peerInbox = {}
  /\ dropped = {}
  /\ abandoned = {}
  /\ pc = [c \in Callers |-> "idle"]
  /\ op = [c \in Callers |-> NoOp]
  /\ reqId = [c \in Callers |-> 0]
  /\ expired = [c \in Callers |-> FALSE]
  /\ interrupted = [c \in Callers |-> FALSE]
  /\ result = [c \in Callers |-> NoResult]
  /\ unsolicited = 0
  /\ srvTools \in {[i \in 1..n |-> i] : n \in 0..MaxTools}
  /\ pageSize \in 1..MaxPageSize
  /\ call = NoCall
  /\ callPc = "idle"
  /\ sent = <<>>
  /\ inflight = NoMessage
  /\ ret = NoReturn
  /\ IDIdle
  /\ HTTPIdle

\* sendRequest up to the return of Transport.Send
SendToolsRequest(method, cursor, name) ==
  /\ requestID' = requestID + 1
  /\ IF ~IsConnectedTransport
     THEN /\ callPc' = "done"
          /\ ret' = ReturnError(<<Lit("transport disconnected")>>)
          /\ UNCHANGED <<sent, inflight>>
     ELSE /\ inflight' = Request(requestID + 1, method, cursor, name)
          /\ sent' = Append(sent, Request(requestID + 1, method, cursor, name))
          /\ callPc' = "await"
          /\ UNCHANGED ret

\* ListToolsWithCursor(ctx, cursor) up to the return of Transport.Send
StartListTools(o, cursor) ==
  /\ callPc = "idle"
  /\ requestID < MaxRequests
  /\ call' = [NoCall EXCEPT !.op = o, !.cursor = cursor]
  /\ IF ~IsInitialized
     THEN /\ callPc' = "done"
          /\ ret' = ReturnError(<<Lit("client not initialized")>>)
          /\ UNCHANGED <<requestID, sent, inflight>>
     ELSE SendToolsRequest("tools/list", cursor, 0)
  /\ UNCHANGED <<session, transportVars, dropped, abandoned, pc, locals,
                 srvTools, pageSize>>
  /\ UNCHANGED besideTools

\* func (c *Client) ListTools(ctx): return c.ListToolsWithCursor(ctx, "")
ListTools == StartListTools("ListTools", 0)

ListToolsWithCursor(cursor) == StartListTools("ListToolsWithCursor", cursor)

\* CallTool(ctx, name, arguments) up to the return of Transport.Send
CallTool(name) ==
  /\ callPc = "idle"
  /\ requestID < MaxRequests
  /\ call' = [NoCall EXCEPT !.op = "CallTool", !.name = name]
  /\ IF ~IsInitialized
     THEN /\ callPc' = "done"
          /\ ret' = ReturnError(<<Lit("client not initialized")>>)
          /\ UNCHANGED <<session, requestID, sent, inflight>>
     ELSE IF ~IsConnectedTransport
          THEN /\ connected' = FALSE
               /\ initialized' = FALSE
               /\ callPc' = "done"
               /\ ret' = ReturnError(<<Lit("connection check failed: "),
                                       Lit("transport disconnected")>>)
               /\ UNCHANGED <<serverInfo, requestID, sent, inflight>>
          ELSE /\ SendToolsRequest("tools/call", 0, name)
               /\ UNCHANGED session
  /\ UNCHANGED <<transportVars, dropped, abandoned, pc, locals, srvTools,
                 pageSize>>
  /\ UNCHANGED besideTools

\* the page of the peer's tools that starts after position cursor
Page(cursor) ==
  SubSeq(srvTools, cursor + 1,
         IF cursor + pageSize < Len(srvTools) THEN cursor + pageSize
         ELSE Len(srvTools))

NextCursor(cursor) ==
  IF cursor + pageSize < Len(srvTools) THEN cursor + pageSize ELSE 0

\* the peer reads the request and writes its response, echoing the id
PeerAnswer ==
  /\ callPc = "await"
  /\ inflight' =
       IF inflight.method = "tools/list"
       THEN IF inflight.cursor > Len(srvTools)
            THEN [NoMessage EXCEPT !.id = inflight.id, !.kind = "error",
                                   !.message = <<Lit("invalid cursor")>>]
            ELSE [NoMessage EXCEPT !.id = inflight.id, !.kind = "result",
                                   !.tools = Page(inflight.cursor),
                                   !.nextCursor = NextCursor(inflight.cursor)]
       ELSE IF inflight.name \in 1..Len(srvTools)
            THEN [NoMessage EXCEPT !.id = inflight.id, !.kind = "result",
                                   !.tools = <<inflight.name>>]
            ELSE [NoMessage EXCEPT !.id = inflight.id, !.kind = "error",
                                   !.message = <<Lit("tool not found: "),
                                                 Name(inflight.name)>>]
  /\ callPc' = "reply"
  /\ UNCHANGED <<clientVars, srvTools, pageSize, call, sent, ret>>
  /\ UNCHANGED besideTools

\* CallTool whose error does not carry the peer's message
CallToolErrorOpaque(message) == <<Lit("call tool error")>>

\* fmt.Errorf("call tool error: %s", response.Error.Message)
CallToolError(message) == <<Lit("call tool error: ")>> \o message

\* fmt.Errorf("list tools error: %s", response.Error.Message)
ListToolsError(message) == <<Lit("list tools error: ")>> \o message

\* sendRequest returns the response carrying the request's id; the operation
\* turns it into its return values.  ListToolsWithCursor returns
\* listResponse.Tools and does not look at listResponse.NextCursor.
ReceiveResponse ==
  /\ callPc = "reply"
  /\ isMatchingID(inflight.id, requestID)
  /\ ret' =
       IF call.op = "CallTool"
       THEN IF inflight.kind = "error"
            THEN ReturnError(CallToolError(inflight.message))
            ELSE ReturnValue(inflight.tools)
       ELSE IF inflight.kind = "error"
            THEN ReturnError(ListToolsError(inflight.message))
            ELSE ReturnValue(inflight.tools)
  /\ callPc' = "done"
  /\ UNCHANGED <<clientVars, srvTools, pageSize, call, sent, inflight>>
  /\ UNCHANGED besideTools

\* the operation has returned to its caller
ReturnToCaller ==
  /\ callPc = "done"
  /\ callPc' = "idle"
  /\ call' = NoCall
  /\ sent' = <<>>
  /\ inflight' = NoMessage
  /\ ret' = NoReturn
  /\ UNCHANGED <<clientVars, srvTools, pageSize>>
  /\ UNCHANGED besideTools

ToolsNext ==
  \/ ListTools
  \/ \E cursor \in 0..MaxTools : ListToolsWithCursor(cursor)
  \/ \E name \in {1, MaxTools + 1} : CallTool(name)
  \/ PeerAnswer
  \/ ReceiveResponse
  \/ ReturnToCaller

ToolsSpec == ToolsInit /\ [][ToolsNext]_vars

\* ----------------------------------------------------- the comparison of ids
MaxID == 3
MaxIDLen == 2

IntID(ty, n) == [type |-> ty, num |-> n, tenths |-> 0, text |-> <<>>]
BoolID == [type |-> "bool", num |-> 0, tenths |-> 0, text |-> <<>>]

IDChars == {"0", "1", "2", "3", "a", "-", "+", "."}
IDTexts == UNION {[1..n -> IDChars] : n \in 0..MaxIDLen}

\* the values Message.ID can hold when isMatchingID is called
IDShapes ==
  {NilID, BoolID}
    \cup {IntID(ty, n) : ty \in {"int64", "int"}, n \in 0..MaxID}
    \cup {FloatID(n, t) : n \in 0..MaxID, t \in {0, 5}}
    \cup {StringID(s) : s \in IDTexts}

IDInit ==
  /\ ClientIdle
  /\ ToolsIdle
  /\ HTTPIdle
  /\ responseID \in IDShapes
  /\ pendingID \in 1..MaxID
  /\ matched = FALSE
  /\ idPc = "idle"

\* one call of c.isMatchingID(response.ID, requestID)
ApplyIsMatchingID ==
  /\ idPc = "idle"
  /\ matched' = isMatchingID(responseID, pendingID)
  /\ idPc' = "done"
  /\ UNCHANGED <<responseID, pendingID>>
  /\ UNCHANGED besideID

IDNext == ApplyIsMatchingID

IDSpec == IDInit /\ [][IDNext]_vars

\* ------------------------------------------- unsolicited inbound messages
MaxUnsolicited == 2

\* a server-initiated notification: a method and no id
Notification == [id |-> NilID, method |-> "notifications/message",
                 kind |-> "notification"]

\* the ids of the requests whose caller is waiting for a response
Pending == {reqId[c] : c \in {d \in Callers : pc[d] \in {"send", "select", "receive"}}}

\* the integer n is what the id denotes, in any of its wire representations
Denotes(id, n) ==
  CASE id.type \in {"int64", "int"} -> id.num = n
    [] id.type = "float64" -> id.tenths = 0 /\ id.num = n
    [] id.type = "string" -> ParseIntOk(id.text) /\ ParseInt(id.text) = n
    [] OTHER -> FALSE

\* the ids a peer can put on a response nobody asked for
StrayIDs ==
  {NilID, StringID(<<"a">>)}
    \cup {FloatID(n, t) : n \in 1..MaxRequests, t \in {0, 5}}

\* the peer sends a notification
PeerNotify ==
  /\ tConnected /\ ~broken
  /\ Len(wire) < MaxWire
  /\ unsolicited < MaxUnsolicited
  /\ unsolicited' = unsolicited + 1
  /\ wire' = Append(wire, Notification)
  /\ UNCHANGED <<session, requestID, tConnected, broken, peerInbox, dropped,
                 abandoned, pc, locals>>
  /\ UNCHANGED <<toolVars, idVars, httpVars, concVars>>

\* the peer sends a response whose id is the id of no pending request
PeerStray(id) ==
  /\ tConnected /\ ~broken
  /\ Len(wire) < MaxWire
  /\ \A n \in Pending : ~Denotes(id, n)
  /\ unsolicited < MaxUnsolicited
  /\ unsolicited' = unsolicited + 1
  /\ wire' = Append(wire, Response(id, "result"))
  /\ UNCHANGED <<session, requestID, tConnected, broken, peerInbox, dropped,
                 abandoned, pc, locals>>
  /\ UNCHANGED <<toolVars, idVars, httpVars, concVars>>

\* one caller task and a peer that also sends what was not asked for, and
\* responses that carry neither a result nor an error object ("bare")
SoloNext ==
  \/ Connect(1)
  \/ Disconnect(1)
  \/ StartInitialize(1)
  \/ \E m \in RequestOps : StartRequestOp(1, m)
  \/ CheckConnection(1)
  \/ NewRequestID(1)
  \/ CheckTransport(1)
  \/ SendRequest(1)
  \/ SendFailed(1)
  \/ Select(1)
  \/ ReceiveMessage(1)
  \/ ReceiveError(1)
  \/ ReceiveFailed(1)
  \/ SetInitialized(1)
  \/ SendInitializedNotification(1)
  \/ Return(1)
  \/ Expire(1)
  \/ \E id \in 1..MaxRequests : \E kind \in {"result", "error", "bare"} :
       PeerRespond(id, kind)
  \/ TransportFail
  \/ PeerNotify
  \/ \E id \in StrayIDs : PeerStray(id)

SoloSpec == Init /\ [][SoloNext]_vars

\* ------------------------------------------------------ the HTTP transports
MaxSends == 3
MaxStream == 2
MaxEvents == 3

Tokens == {"s1", "s2"}

\* the messages a caller hands to Send: two requests and a notification
Messages ==
  {[method |-> "initialize", hasID |-> TRUE],
   [method |-> "tools/list", hasID |-> TRUE],
   [method |-> "notifications/initialized", hasID |-> FALSE]}

\* what one POST comes to: client.Do fails, io.ReadAll fails, the status is
\* 400 or more with a body that is no JSON, the body is empty, is no JSON,
\* or is a JSON message
Exchanges == {"failed", "readerror", "status", "empty", "garbage", "message"}

\* what the GET of the event stream comes to: client.Do fails, the stream
\* ends without a data line, or its first data line names the session endpoint
Streams == {"failed", "noendpoint", "endpoint"}

PostResponse(n) == [src |-> "post", n |-> n]
StreamResponse(n) == [src |-> "stream", n |-> n]
Junk == [src |-> "junk", n |-> 0]
EOF == [src |-> "eof", n |-> 0]

HTTPRequest(verb, url, token) == [verb |-> verb, url |-> url, token |-> token]

HTTPCall(o, method, err, requests, msg) ==
  [op |-> o, method |-> method, err |-> err, requests |-> requests, msg |-> msg]

HTTPInit ==
  /\ ClientIdle
  /\ ToolsIdle
  /\ IDIdle
  /\ variant \in {"streaming", "sse"}
  /\ HTTPFresh

\* ---- StreamingHTTPTransport
\* func (h *StreamingHTTPTransport) Connect(ctx)
HTTPConnect ==
  /\ variant = "streaming"
  /\ hConnected' = TRUE
  /\ hCall' = HTTPCall("Connect", "", "nil", <<>>, NoResponse)
  /\ UNCHANGED <<variant, hSessionID, hSessionURL, hInitialized, hLastResponse,
                 hSseConnection, stream, sendSeq, issued, handshook, answered>>
  /\ UNCHANGED streams
  /\ UNCHANGED besideHTTP

\* the body of func (h *StreamingHTTPTransport) Close(), run under h.mu.Lock()
closeStreaming ==
  /\ variant = "streaming"
  /\ hConnected' = FALSE
  /\ hSessionID' = ""
  /\ hInitialized' = FALSE
  /\ issued' = ""
  /\ handshook' = FALSE
  /\ hCall' = HTTPCall("Close", "", "nil", <<>>, NoResponse)
  /\ UNCHANGED <<variant, hSessionURL, hLastResponse, hSseConnection, stream,
                 sendSeq, answered>>
  /\ UNCHANGED streams

\* Close that keeps the session token
HTTPCloseKeepsSession ==
  /\ variant = "streaming"
  /\ hConnected' = FALSE
  /\ hInitialized' = FALSE
  /\ issued' = ""
  /\ handshook' = FALSE
  /\ hCall' = HTTPCall("Close", "", "nil", <<>>, NoResponse)
  /\ UNCHANGED <<variant, hSessionID, hSessionURL, hLastResponse, hSseConnection,
                 stream, sendSeq, answered>>
  /\ UNCHANGED streams
  /\ UNCHANGED besideHTTP

\* func (h *StreamingHTTPTransport) Close()
HTTPClose ==
  /\ closeStreaming
  /\ UNCHANGED besideHTTP

\* the error Send returns after a POST that came to exchange
PostError(exchange) ==
  CASE exchange = "failed" -> "senderror"
    [] exchange = "readerror" -> "readerror"
    [] exchange \in {"garbage", "status"} -> "unmarshalerror"
    [] OTHER -> "nil"

\* func (h *StreamingHTTPTransport) Send(message); the server's part of the
\* exchange is what the POST comes to and the session token in its header
HTTPSend(message, exchange, token) ==
  /\ variant = "streaming"
  /\ sendSeq < MaxSends
  /\ sendSeq' = sendSeq + 1
  /\ IF ~hConnected
     THEN /\ hCall' = HTTPCall("Send", message.method, "notconnected", <<>>,
                               NoResponse)
          /\ UNCHANGED <<hSessionID, hLastResponse, issued, answered>>
     ELSE /\ hCall' = HTTPCall("Send", message.method, PostError(exchange),
                               <<HTTPRequest("POST", "endpoint", hSessionID)>>,
                               NoResponse)
          /\ IF exchange = "failed"
             THEN /\ token = ""
                  /\ UNCHANGED <<hSessionID, hLastResponse, issued, answered>>
             ELSE /\ hSessionID' = IF token # "" THEN token ELSE hSessionID
                  /\ issued' = IF token # "" THEN token ELSE issued
                  /\ hLastResponse' = IF exchange = "message"
                                      THEN PostResponse(sendSeq + 1)
                                      ELSE hLastResponse
                  /\ answered' = IF exchange \in {"empty", "message"}
                                 THEN sendSeq + 1 ELSE answered
  /\ UNCHANGED <<variant, hConnected, hSessionURL, hInitialized, hSseConnection,
                 stream, handshook>>
  /\ UNCHANGED streams
  /\ UNCHANGED besideHTTP

\* Receive that hands out the stored response without looking at connected
HTTPReceiveUnchecked ==
  /\ variant = "streaming"
  /\ IF hLastResponse # NoResponse
     THEN /\ hCall' = HTTPCall("Receive", "", "nil", <<>>, hLastResponse)
          /\ hLastResponse' = NoResponse
     ELSE /\ hCall' = HTTPCall("Receive", "", "noresponse", <<>>, NoResponse)
          /\ UNCHANGED hLastResponse
  /\ UNCHANGED <<variant, hConnected, hSessionID, hSessionURL, hInitialized,
                 hSseConnection, stream, sendSeq, issued, handshook, answered>>
  /\ UNCHANGED streams
  /\ UNCHANGED besideHTTP

\* func (h *StreamingHTTPTransport) Receive()
HTTPReceive ==
  /\ variant = "streaming"
  /\ IF ~hConnected
     THEN /\ hCall' = HTTPCall("Receive", "", "notconnected", <<>>, NoResponse)
          /\ UNCHANGED hLastResponse
     ELSE IF hLastResponse # NoResponse
     THEN /\ hCall' = HTTPCall("Receive", "", "nil", <<>>, hLastResponse)
          /\ hLastResponse' = NoResponse
     ELSE /\ hCall' = HTTPCall("Receive", "", "noresponse", <<>>, NoResponse)
          /\ UNCHANGED hLastResponse
  /\ UNCHANGED <<variant, hConnected, hSessionID, hSessionURL, hInitialized,
                 hSseConnection, stream, sendSeq, issued, handshook, answered>>
  /\ UNCHANGED streams
  /\ UNCHANGED besideHTTP

\* ---- SSETransport
\* func (h *SSETransport) Connect(ctx)
SSEConnect ==
  /\ variant = "sse"
  /\ hConnected' = TRUE
  /\ hCall' = HTTPCall("Connect", "", "nil", <<>>, NoResponse)
  /\ UNCHANGED <<variant, hSessionID, hSessionURL, hInitialized, hLastResponse,
                 hSseConnection, stream, sendSeq, issued, handshook, answered>>
  /\ UNCHANGED streams
  /\ UNCHANGED besideHTTP

\* the body of func (h *SSETransport) Close(), run under h.mu.Lock()
closeSession ==
  /\ variant = "sse"
  /\ hSseConnection' = FALSE
  /\ stream' = <<>>
  /\ hConnected' = FALSE
  /\ hSessionID' = ""
  /\ hSessionURL' = ""
  /\ hInitialized' = FALSE
  /\ issued' = ""
  /\ handshook' = FALSE
  /\ hCall' = HTTPCall("Close", "", "nil", <<>>, NoResponse)
  /\ openStreams' = IF hSseConnection THEN openStreams - 1 ELSE openStreams
  /\ evSeq' = 0
  /\ delivered' = 0
  /\ UNCHANGED <<variant, hLastResponse, sendSeq, answered>>

\* func (h *SSETransport) Close()
SSEClose ==
  /\ closeSession
  /\ UNCHANGED besideHTTP

\* a path of Send that returns err after the HTTP requests and writes no field
Returns(err, requests) ==
  [err |-> err, requests |-> requests, sessionURL |-> hSessionURL,
   sseConnection |-> hSseConnection, events |-> stream,
   lastResponse |-> hLastResponse, initialized |-> hInitialized,
   answered |-> answered]

\* func (h *SSETransport) sendMessageToSession(message): what it returns and
\* writes, run after the part of Send that came to before
sendMessageToSession(exchange, before) ==
  IF exchange \in {"empty", "message"}
  THEN [before EXCEPT
          !.requests = Append(before.requests, HTTPRequest("POST", "session", "")),
          !.lastResponse = IF exchange = "message"
                           THEN PostResponse(sendSeq + 1) ELSE NoResponse,
          !.initialized = TRUE,
          !.answered = sendSeq + 1]
  ELSE [before EXCEPT
          !.err = PostError(exchange),
          !.requests = Append(before.requests, HTTPRequest("POST", "session", ""))]

\* func (h *SSETransport) sendInitializeRequest(message)
sendInitializeRequest(get, exchange) ==
  LET opened == <<HTTPRequest("GET", "endpoint", "")>> IN
  CASE get = "failed" -> Returns("sseerror", opened)
    [] get = "noendpoint" -> Returns("noendpoint", opened)
    [] OTHER ->
         sendMessageToSession(exchange,
           [Returns("nil", opened) EXCEPT !.sessionURL = "session",
                                          !.sseConnection = TRUE,
                                          !.events = <<>>])

\* func (h *SSETransport) sendNotification(message)
sendNotification(exchange) ==
  IF hSessionURL = ""
  THEN Returns("nosession", <<>>)
  ELSE Returns(CASE exchange = "failed" -> "senderror"
                 [] exchange = "status" -> "statuserror"
                 [] OTHER -> "nil",
               <<HTTPRequest("POST", "session", "")>>)

\* func (h *SSETransport) sendSessionRequest(message)
sendSessionRequest(exchange) ==
  IF hSessionURL = ""
  THEN Returns("nosession", <<>>)
  ELSE sendMessageToSession(exchange, Returns("nil", <<>>))

\* func (h *SSETransport) Send(message); the server's part is what the GET of
\* the event stream and the POST come to, and the number of JSON events that
\* arrived in the same read as the session-endpoint event
SSESend(message, get, exchange, together) ==
  /\ variant = "sse"
  /\ sendSeq < MaxSends
  /\ sendSeq' = sendSeq + 1
  /\ LET retained == /\ hConnected /\ message.method = "initialize"
                      /\ ~hInitialized /\ get = "endpoint"
     IN  /\ ~retained => together = 0
         /\ openStreams' = IF retained THEN openStreams + 1 ELSE openStreams
         /\ evSeq' = IF retained THEN together ELSE evSeq
         /\ delivered' = IF retained THEN 0 ELSE delivered
  /\ LET done ==
           IF ~hConnected THEN Returns("notconnected", <<>>)
           ELSE IF message.method = "initialize" /\ ~hInitialized
                THEN sendInitializeRequest(get, exchange)
           ELSE IF ~message.hasID THEN sendNotification(exchange)
           ELSE sendSessionRequest(exchange)
     IN  /\ hCall' = HTTPCall("Send", message.method, done.err, done.requests,
                              NoResponse)
         /\ hSessionURL' = done.sessionURL
         /\ hSseConnection' = done.sseConnection
         /\ stream' = done.events
         /\ hLastResponse' = done.lastResponse
         /\ hInitialized' = done.initialized
         /\ answered' = done.answered
         /\ handshook' = (handshook \/ (message.method = "initialize" /\ done.err = "nil"))
  /\ UNCHANGED <<variant, hConnected, hSessionID, issued>>
  /\ UNCHANGED besideHTTP

\* the positions of the JSON messages among the events of the stream
Readable == {i \in 1..Len(stream) : stream[i].src = "stream"}

AtEOF == stream # <<>> /\ stream[Len(stream)] = EOF

\* Receive that reads the event stream before it looks at lastResponse
SSEReceiveStreamFirst(taken) ==
  /\ variant = "sse"
  /\ IF ~hConnected
     THEN /\ hCall' = HTTPCall("Receive", "", "notconnected", <<>>, NoResponse)
          /\ UNCHANGED <<hLastResponse, stream, delivered>>
     ELSE IF hSseConnection /\ Readable # {}
     THEN LET first == CHOOSE i \in Readable : \A j \in Readable : i <= j IN
          /\ taken >= first
          /\ taken <= Len(stream) - (IF AtEOF THEN 1 ELSE 0)
          /\ hCall' = HTTPCall("Receive", "", "nil", <<>>, stream[first])
          /\ stream' = SubSeq(stream, taken + 1, Len(stream))
          /\ delivered' = stream[first].n
          /\ UNCHANGED hLastResponse
     ELSE IF hLastResponse # NoResponse
     THEN /\ hCall' = HTTPCall("Receive", "", "nil", <<>>, hLastResponse)
          /\ hLastResponse' = NoResponse
          /\ UNCHANGED <<stream, delivered>>
     ELSE /\ hCall' = HTTPCall("Receive", "", "noresponse", <<>>, NoResponse)
          /\ UNCHANGED <<hLastResponse, stream, delivered>>
  /\ UNCHANGED <<variant, hConnected, hSessionID, hSessionURL, hInitialized,
                 hSseConnection, sendSeq, issued, handshook, answered>>
  /\ UNCHANGED <<openStreams, evSeq>>
  /\ UNCHANGED besideHTTP

\* func (h *SSETransport) Receive(); a new bufio.Scanner reads the stream on
\* every call: it returns the first data line that is a JSON message and has
\* taken from the stream the events that arrived in the same read
SSEReceive(taken) ==
  /\ variant = "sse"
  /\ IF ~hConnected
     THEN /\ hCall' = HTTPCall("Receive", "", "notconnected", <<>>, NoResponse)
          /\ UNCHANGED <<hLastResponse, stream, delivered>>
     ELSE IF hLastResponse # NoResponse
     THEN /\ hCall' = HTTPCall("Receive", "", "nil", <<>>, hLastResponse)
          /\ hLastResponse' = NoResponse
          /\ UNCHANGED <<stream, delivered>>
     ELSE IF hSseConnection /\ Readable # {}
     THEN LET first == CHOOSE i \in Readable : \A j \in Readable : i <= j IN
          /\ taken >= first
          /\ taken <= Len(stream) - (IF AtEOF THEN 1 ELSE 0)
          /\ hCall' = HTTPCall("Receive", "", "nil", <<>>, stream[first])
          /\ stream' = SubSeq(stream, taken + 1, Len(stream))
          /\ delivered' = stream[first].n
          /\ UNCHANGED hLastResponse
     ELSE \* the scanner reads on until the stream ends
          /\ hSseConnection => AtEOF
          /\ hCall' = HTTPCall("Receive", "", "noresponse", <<>>, NoResponse)
          /\ stream' = IF hSseConnection THEN <<EOF>> ELSE stream
          /\ UNCHANGED <<hLastResponse, delivered>>
  /\ UNCHANGED <<variant, hConnected, hSessionID, hSessionURL, hInitialized,
                 hSseConnection, sendSeq, issued, handshook, answered>>
  /\ UNCHANGED <<openStreams, evSeq>>
  /\ UNCHANGED besideHTTP

\* the server writes an event on the open stream, or ends it
ServerEvent(event) ==
  /\ variant = "sse"
  /\ hSseConnection
  /\ Len(stream) < MaxStream
  /\ ~AtEOF
  /\ event.src = "stream" => event.n = evSeq + 1 /\ evSeq < MaxEvents
  /\ evSeq' = IF event.src = "stream" THEN evSeq + 1 ELSE evSeq
  /\ stream' = Append(stream, event)
  /\ UNCHANGED <<variant, hConnected, hSessionID, hSessionURL, hInitialized,
                 hLastResponse, hSseConnection, sendSeq, issued, handshook,
                 answered, hCall>>
  /\ UNCHANGED <<openStreams, delivered>>
  /\ UNCHANGED besideHTTP

HTTPNext ==
  \/ HTTPConnect
  \/ HTTPClose
  \/ \E message \in Messages : \E exchange \in Exchanges :
       \E token \in Tokens \cup {""} : HTTPSend(message, exchange, token)
  \/ HTTPReceive
  \/ SSEConnect
  \/ SSEClose
  \/ \E message \in Messages : \E get \in Streams : \E exchange \in Exchanges :
       \E together \in 0..1 : SSESend(message, get, exchange, together)
  \/ \E taken \in 0..MaxStream : SSEReceive(taken)
  \/ \E event \in {StreamResponse(evSeq + 1), Junk, EOF} : ServerEvent(event)

HTTPSpec == HTTPInit /\ [][HTTPNext]_vars

\* ------------------------------------------- several tasks on one transport
\* Tasks call Receive, Close and IsConnected of one HTTP transport at the same
\* time; each of them is a sequence of steps taken under h.mu, a
\* sync.RWMutex: RLock is shared among readers and waits while a Lock is held
\* or requested, Lock waits until no reader is left.  Connect and Send take
\* the lock and run in one step.

\* the tasks that hold h.mu.RLock()
Readers == {t \in Tasks : tpc[t] \in {"check", "clear", "scan"}}

\* a task has called h.mu.Lock() and waits for the readers to leave
WriterWaiting == \E t \in Tasks : tpc[t] = "closewait"

besideTasks == <<clientVars, toolVars, idVars, unsolicited>>

\* Sends looked at while several tasks are inside the transport
MaxTaskSends == 2

\* Receive: h.mu.RLock()
ReceiveEnter(t) ==
  /\ tpc[t] = "idle"
  /\ ~WriterWaiting
  /\ tpc' = [tpc EXCEPT ![t] = "check"]
  /\ tlocal' = [tlocal EXCEPT ![t] = NoResponse]
  /\ got' = [got EXCEPT ![t] = NoResponse]
  /\ UNCHANGED <<httpVars, besideTasks>>

\* Receive: if !h.connected; if h.lastResponse != nil { response := h.lastResponse;
\* if h.sseConnection != nil (SSETransport)
ReceiveCheck(t) ==
  /\ tpc[t] = "check"
  /\ IF ~hConnected
     THEN /\ hCall' = HTTPCall("Receive", "", "notconnected", <<>>, NoResponse)
          /\ tpc' = [tpc EXCEPT ![t] = "idle"]
          /\ UNCHANGED tlocal
     ELSE IF hLastResponse # NoResponse
     THEN /\ tlocal' = [tlocal EXCEPT ![t] = hLastResponse]
          /\ tpc' = [tpc EXCEPT ![t] = "clear"]
          /\ UNCHANGED hCall
     ELSE IF variant = "sse" /\ hSseConnection
     THEN /\ tpc' = [tpc EXCEPT ![t] = "scan"]
          /\ UNCHANGED <<hCall, tlocal>>
     ELSE /\ hCall' = HTTPCall("Receive", "", "noresponse", <<>>, NoResponse)
          /\ tpc' = [tpc EXCEPT ![t] = "idle"]
          /\ UNCHANGED tlocal
  /\ UNCHANGED <<variant, hConnected, hSessionID, hSessionURL, hInitialized,
                 hLastResponse, hSseConnection, stream, sendSeq, issued,
                 handshook, answered, streams, got, besideTasks>>

\* Receive: h.lastResponse = nil; return response, nil
ReceiveClear(t) ==
  /\ tpc[t] = "clear"
  /\ hLastResponse' = NoResponse
  /\ got' = [got EXCEPT ![t] = tlocal[t]]
  /\ hCall' = HTTPCall("Receive", "", "nil", <<>>, tlocal[t])
  /\ tpc' = [tpc EXCEPT ![t] = "idle"]
  /\ UNCHANGED <<variant, hConnected, hSessionID, hSessionURL, hInitialized,
                 hSseConnection, stream, sendSeq, issued, handshook, answered,
                 streams, tlocal, besideTasks>>

\* SSETransport.Receive: for scanner.Scan() { ... }: blocked in the read of
\* the body until the server has written something or ended the stream
ReceiveScan(t, taken) ==
  /\ tpc[t] = "scan"
  /\ Readable # {} \/ AtEOF
  /\ IF Readable # {}
     THEN LET first == CHOOSE i \in Readable : \A j \in Readable : i <= j IN
          /\ taken >= first
          /\ taken <= Len(stream) - (IF AtEOF THEN 1 ELSE 0)
          /\ hCall' = HTTPCall("Receive", "", "nil", <<>>, stream[first])
          /\ got' = [got EXCEPT ![t] = stream[first]]
          /\ stream' = SubSeq(stream, taken + 1, Len(stream))
          /\ delivered' = stream[first].n
     ELSE /\ taken = 0
          /\ hCall' = HTTPCall("Receive", "", "noresponse", <<>>, NoResponse)
          /\ stream' = <<EOF>>
          /\ UNCHANGED <<got, delivered>>
  /\ tpc' = [tpc EXCEPT ![t] = "idle"]
  /\ UNCHANGED <<variant, hConnected, hSessionID, hSessionURL, hInitialized,
                 hLastResponse, hSseConnection, sendSeq, issued, handshook,
                 answered, openStreams, evSeq, tlocal, besideTasks>>

\* Close: h.mu.Lock() called
CloseCall(t) ==
  /\ tpc[t] = "idle"
  /\ tpc' = [tpc EXCEPT ![t] = "closewait"]
  /\ UNCHANGED <<httpVars, tlocal, got, besideTasks>>

\* Close: h.mu.Lock() acquired, the body run, h.mu.Unlock()
CloseAcquire(t) ==
  /\ tpc[t] = "closewait"
  /\ Readers = {}
  /\ closeStreaming \/ closeSession
  /\ tpc' = [tpc EXCEPT ![t] = "idle"]
  /\ UNCHANGED <<tlocal, got, besideTasks>>

\* IsConnected: h.mu.RLock() called
IsConnectedCall(t) ==
  /\ tpc[t] = "idle"
  /\ tpc' = [tpc EXCEPT ![t] = "connwait"]
  /\ UNCHANGED <<httpVars, tlocal, got, besideTasks>>

\* IsConnected: h.mu.RLock() acquired; return h.connected
IsConnectedAcquire(t) ==
  /\ tpc[t] = "connwait"
  /\ ~WriterWaiting
  /\ tpc' = [tpc EXCEPT ![t] = "idle"]
  /\ UNCHANGED <<httpVars, tlocal, got, besideTasks>>

\* Connect, in one step under h.mu.Lock()
TaskConnect ==
  /\ Readers = {}
  /\ HTTPConnect \/ SSEConnect

\* Send, in one step under h.mu.RLock(); the handshake Send that retains a new
\* event stream is taken while no Receive is reading the old one
TaskSend ==
  /\ ~WriterWaiting
  /\ sendSeq < MaxTaskSends
  /\ \/ \E message \in Messages : \E exchange \in Exchanges :
          \E token \in Tokens \cup {""} : HTTPSend(message, exchange, token)
     \/ /\ \A t \in Tasks : tpc[t] # "scan"
        /\ \E message \in Messages : \E get \in Streams : \E exchange \in Exchanges :
             \E together \in 0..1 : SSESend(message, get, exchange, together)

\* client: &http.Client{Timeout: 30 * time.Second}: the timer of the GET that
\* opened the retained stream keeps running and ends the read of its body
StreamTimeout ==
  /\ variant = "sse"
  /\ hSseConnection
  /\ ~AtEOF
  /\ stream' = Append(stream, EOF)
  /\ UNCHANGED <<variant, hConnected, hSessionID, hSessionURL, hInitialized,
                 hLastResponse, hSseConnection, sendSeq, issued, handshook,
                 answered, hCall, streams, concVars, besideTasks>>

\* the steps of task t that only wait for the lock or for the server
TaskStep(t) ==
  \/ ReceiveCheck(t)
  \/ ReceiveClear(t)
  \/ \E taken \in 0..MaxStream : ReceiveScan(t, taken)
  \/ CloseAcquire(t)
  \/ IsConnectedAcquire(t)

ConcNext ==
  \/ \E t \in Tasks : ReceiveEnter(t)
  \/ \E t \in Tasks : ReceiveCheck(t)
  \/ \E t \in Tasks : ReceiveClear(t)
  \/ \E t \in Tasks : \E taken \in 0..MaxStream : ReceiveScan(t, taken)
  \/ \E t \in Tasks : CloseCall(t)
  \/ \E t \in Tasks : CloseAcquire(t)
  \/ \E t \in Tasks : IsConnectedCall(t)
  \/ \E t \in Tasks : IsConnectedAcquire(t)
  \/ TaskConnect
  \/ TaskSend
  \/ \E event \in {StreamResponse(evSeq + 1), Junk, EOF} : ServerEvent(event)
  \/ StreamTimeout

ConcSpec == HTTPInit /\ [][ConcNext]_vars

\* a task that can take a step of its call takes it, and a reader that waits
\* while a Lock is held gets the lock when it is released, before a Lock that
\* is requested later; the client's timer fires; nothing obliges a caller to
\* call, or the server to write on the event stream
FairConcSpec ==
  /\ ConcSpec
  /\ \A t \in Tasks : WF_vars(TaskStep(t)) /\ SF_vars(IsConnectedAcquire(t))
  /\ WF_vars(StreamTimeout)

\* every call of Close and of IsConnected returns
TasksReturn ==
  \A t \in Tasks : (tpc[t] \in {"closewait", "connwait"}) ~> (tpc[t] = "idle")

\* ------------------------------------------------------------------ claims
InRequest(c) == pc[c] \in {"select", "receive"}

HoldsResponse(c) ==
  /\ pc[c] \in {"done", "setinitialized", "notify"}
  /\ result[c].kind \in {"ok", "rpcerror", "response"}

ReturnedOwn(c) ==
  /\ pc[c] = "done"
  /\ result[c].kind \in {"ok", "rpcerror"}
  /\ IDNumber(result[c].id) = reqId[c]

OwnResponseOnWire(c) ==
  \E i \in 1..Len(wire) : IDNumber(wire[i].id) = reqId[c]

TransportDown == ~tConnected \/ broken

ErrorKinds == {"receiveerror", "senderror", "timeout", "transportdisconnected",
               "conncheck", "notificationerror"}

\* C1: with several callers in flight and the peer answering every request
\* with its id, in any order, every caller whose response has arrived returns
\* that response (unless its deadline elapses or the transport goes down
\* first), and no response is held by two callers.
C1_EachCallerGetsOwnResponse ==
  /\ [](\A c, d \in Callers :
          (c # d /\ HoldsResponse(c) /\ HoldsResponse(d))
            => IDNumber(result[c].id) # IDNumber(result[d].id))
  /\ \A c \in Callers :
       (InRequest(c) /\ op[c] \in RequestOps /\ OwnResponseOnWire(c))
         ~> (ReturnedOwn(c) \/ expired[c] \/ TransportDown \/ interrupted[c])

\* C2: a response read off the transport while its requester is still
\* waiting is not lost: no message dropped by handleMessage carries the id of
\* a request whose caller is waiting for it.
C2_ResponseNotLost ==
  \A c \in Callers : InRequest(c) => \A d \in dropped : d[1] # reqId[c]

\* C3: at most one task is inside Transport.Receive at any time.
C3_SingleReader ==
  Cardinality({c \in Callers : pc[c] = "receive" /\ op[c] \in RequestOps}) <= 1

\* C4: once the transport is closed or has failed while a request is pending,
\* that request's operation eventually returns an error; it does not stay
\* blocked forever.
C4_ClosedResolvesPending ==
  \A c \in Callers :
    (InRequest(c) /\ TransportDown)
      ~> (pc[c] = "done" /\ result[c].kind \in ErrorKinds)

\* C5: a request whose deadline has elapsed returns a timeout (or another
\* result) to its caller, even when the peer never answers and Receive never
\* returns.
C5_TimeoutReturns ==
  \A c \in Callers : (InRequest(c) /\ expired[c]) ~> (pc[c] = "done")

\* C6: a response whose id is that of a request that timed out is never the
\* response an operation returns, and the caller that reads it drops it and
\* goes on waiting for its own response with the session untouched.
C6_LateResponseDiscarded ==
  /\ [](\A c \in Callers :
          HoldsResponse(c) => /\ IDNumber(result[c].id) = reqId[c]
                              /\ IDNumber(result[c].id) \notin abandoned)
  /\ [][\A c \in Callers :
          (/\ pc[c] = "receive" /\ pc'[c] # "receive"
           /\ wire # <<>> /\ wire' = Tail(wire)
           /\ IDNumber(Head(wire).id) \in abandoned)
          => /\ pc'[c] = "select"
             /\ result'[c] = result[c]
             /\ dropped' = dropped \cup {<<IDNumber(Head(wire).id), reqId[c]>>}
             /\ UNCHANGED session]_vars

\* a later request returned its own response after its caller had dropped
\* the late response of a request that timed out
C6_Witness ==
  \E c \in Callers :
    /\ ReturnedOwn(c)
    /\ \E k \in abandoned : k < reqId[c] /\ <<k, reqId[c]>> \in dropped

\* C7: a list/call/read/get operation started while the session is not
\* initialized returns the not-initialized error in that step, with no Send,
\* no Receive, no request id issued and the session unchanged.
C7_NotInitializedIsLocal ==
  [][\A c \in Callers :
       (pc[c] = "idle" /\ op'[c] \in RequestOps /\ ~initialized)
         => /\ pc'[c] = "done"
            /\ result'[c] = Outcome("notinitialized", NilID)
            /\ UNCHANGED <<session, requestID, transportVars>>]_vars

C7_Witness ==
  \E c \in Callers :
    /\ pc[c] = "done" /\ op[c] = "resources/read"
    /\ result[c].kind = "notinitialized"
    /\ connected /\ tConnected /\ ~broken

\* C8: no tools/*, resources/* or prompts/* request goes out through
\* Transport.Send while the session is not initialized.
C8_NoRequestOutsideReady ==
  [][\A c \in Callers :
       (pc[c] = "send" /\ pc'[c] = "select" /\ op[c] \in RequestOps)
         => initialized]_vars

\* C9: the session is never initialized while disconnected.
C9_InitializedImpliesConnected == initialized => connected

\* C10: an operation that returns because Transport.Send or Transport.Receive
\* failed inside sendRequest has set connected=false and initialized=false by
\* the time it returns its error.
C10_FailureMarksDisconnected ==
  [][\A c \in Callers :
       (pc[c] \in {"sendfailed", "receivefailed"} /\ pc'[c] # pc[c])
         => /\ pc'[c] = "done"
            /\ result'[c].kind \in {"senderror", "receiveerror"}
            /\ ~connected' /\ ~initialized']_vars

\* a failed Send and a failed Receive have both been reported on a session
\* that had been initialized
C10_Witness ==
  \E c, d \in Callers :
    /\ pc[c] = "done" /\ result[c].kind = "senderror"
    /\ pc[d] = "done" /\ result[d].kind = "receiveerror"
    /\ serverInfo = "server"
    /\ ~connected /\ ~initialized

\* a call of Disconnect / Connect / Initialize made by caller c in this step
DisconnectCall(c) == pc[c] = "idle" /\ op'[c] = "disconnect"

ConnectCall(c) == pc[c] = "idle" /\ op'[c] = "connect"

InitializeCall(c) == pc[c] = "idle" /\ op'[c] = "initialize"

SessionReset == ~connected /\ ~initialized /\ serverInfo = "nil"

\* C11: when Disconnect returns, the transport is closed (Transport.IsConnected
\* is false), whatever happened before, a failed send or receive that marked
\* the session disconnected included.
C11_DisconnectClosesTransport ==
  [][\A c \in Callers : DisconnectCall(c) => ~tConnected']_vars

\* C12: when Disconnect returns (always with success) the session is reset:
\* connected=false, initialized=false, no server info; and a Disconnect on a
\* session that is already reset changes nothing and closes nothing.
C12_DisconnectResetsIdempotent ==
  [][\A c \in Callers :
       DisconnectCall(c)
         => /\ pc'[c] = "done" /\ result'[c].kind = "nil"
            /\ SessionReset'
            /\ SessionReset
                 => UNCHANGED <<session, transportVars, interrupted>>]_vars

\* C13: Connect on a connected Client returns success and leaves session and
\* transport as they are; a Connect whose Transport.Connect fails returns an
\* error and leaves the session disconnected; a successful one leaves it
\* connected.
C13_ConnectIdempotent ==
  [][\A c \in Callers :
       ConnectCall(c)
         => /\ pc'[c] = "done"
            /\ result'[c].kind \in {"nil", "connecterror"}
            /\ connected
                 => /\ result'[c].kind = "nil"
                    /\ UNCHANGED <<session, transportVars>>
            /\ result'[c].kind = "connecterror"
                 => /\ ~connected' /\ ~tConnected'
                    /\ UNCHANGED <<session, wire, peerInbox>>
            /\ result'[c].kind = "nil" => connected' /\ tConnected']_vars

\* two Connect calls have returned success one after the other on a session
\* that was initialized in between: the later one found it connected
C13_Witness ==
  \E c, d \in Callers :
    /\ c # d
    /\ pc[c] = "done" /\ op[c] = "connect" /\ result[c].kind = "nil"
    /\ pc[d] = "done" /\ op[d] = "connect" /\ result[d].kind = "nil"
    /\ connected /\ initialized

\* C14: a call of Initialize made on a session that is already initialized
\* returns at once (an error or a no-op); it does not go on to issue and send
\* another initialize request.
C14_NoSecondInitialize ==
  [][\A c \in Callers :
       (InitializeCall(c) /\ initialized) => pc'[c] = "done"]_vars

\* C15: the initialized notification is sent once per handshake, by a caller
\* holding the error-free, parsed response to its own initialize request; and
\* when Initialize returns success the session is initialized and holds the
\* server info of that response.
C15_HandshakeOrder ==
  /\ [](\A c \in Callers :
          pc[c] \in {"setinitialized", "notify"}
            => /\ op[c] = "initialize"
               /\ result[c].kind = "response"
               /\ IDNumber(result[c].id) = reqId[c])
  /\ [][\A c \in Callers :
          /\ pc'[c] = "notify" => pc[c] \in {"setinitialized", "notify"}
          /\ (pc[c] = "notify" /\ pc'[c] # "notify") => pc'[c] = "done"
          /\ (op[c] = "initialize" /\ pc[c] # "done" /\ pc'[c] = "done"
                /\ result'[c].kind = "ok")
               => /\ pc[c] = "notify"
                  /\ initialized' /\ serverInfo' = "server"]_vars

\* C16: when the response to the initialize request carries an error object,
\* Initialize returns an error in that step: nothing is stored in the session
\* and the notification step is never entered.
C16_InitializeErrorResponse ==
  [][\A c \in Callers :
       (/\ pc[c] = "receive" /\ op[c] = "initialize"
        /\ wire # <<>> /\ wire' = Tail(wire)
        /\ isMatchingID(Head(wire).id, reqId[c])
        /\ Head(wire).kind = "error"
        /\ pc'[c] # "receive")
         => /\ pc'[c] = "done"
            /\ result'[c].kind = "rpcerror"
            /\ UNCHANGED session]_vars

\* Initialize has returned the peer's error on a connected session that is
\* not initialized and holds no server info
C16_Witness ==
  \E c \in Callers :
    /\ pc[c] = "done" /\ op[c] = "initialize"
    /\ result[c].kind = "rpcerror"
    /\ connected /\ ~initialized /\ serverInfo = "nil"

\* C17: Initialize called while the Client is not connected returns the
\* not-connected error in that step, with no Send, no Receive, no request id
\* issued and the session unchanged.
C17_InitializeNotConnected ==
  [][\A c \in Callers :
       (InitializeCall(c) /\ ~connected)
         => /\ pc'[c] = "done"
            /\ result'[c] = Outcome("notconnected", NilID)
            /\ UNCHANGED <<session, requestID, transportVars>>]_vars

\* Initialize has returned not-connected although the transport itself is
\* open (the session was marked disconnected by a failed request)
C17_Witness ==
  \E c \in Callers :
    /\ pc[c] = "done" /\ op[c] = "initialize"
    /\ result[c].kind = "notconnected"
    /\ ~connected /\ tConnected

\* the cursors a caller following nextCursor over all of the peer's pages
\* sends: 0, pageSize, 2*pageSize, ... while tools remain
RECURSIVE CursorsFrom(_)
CursorsFrom(cursor) ==
  IF NextCursor(cursor) = 0 THEN <<cursor>>
  ELSE <<cursor>> \o CursorsFrom(NextCursor(cursor))

\* C18: ListTools that returns without error has sent one tools/list request
\* per page of the peer, carrying the empty cursor and then each returned
\* cursor, and returns all the peer's tools in the peer's order.
C18_ListToolsFollowsCursor ==
  (callPc = "done" /\ call.op = "ListTools" /\ ret.err = <<>>)
    => /\ [i \in 1..Len(sent) |-> sent[i].cursor] = CursorsFrom(0)
       /\ \A i \in 1..Len(sent) : sent[i].method = "tools/list"
       /\ ret.value = srvTools

\* C19: CallTool on an initialized session with a name the peer does not know
\* has sent exactly one tools/call request carrying that name, and returns no
\* result and an error whose text contains the message of the peer's error.
C19_UnknownToolIsPeerError ==
  (/\ callPc = "done" /\ call.op = "CallTool" /\ initialized
   /\ call.name \notin 1..Len(srvTools))
    => /\ Len(sent) = 1
       /\ sent[1].method = "tools/call" /\ sent[1].name = call.name
       /\ inflight.kind = "error" /\ inflight.message # <<>>
       /\ ~ret.hasValue
       /\ Contains(ret.err, inflight.message)

\* CallTool has returned the peer's "tool not found" for an unknown name while
\* the peer does hold tools
C19_Witness ==
  /\ callPc = "done" /\ call.op = "CallTool" /\ initialized
  /\ srvTools # <<>> /\ call.name \notin 1..Len(srvTools)
  /\ Contains(ret.err, <<Lit("tool not found: "), Name(call.name)>>)

\* C20: the connection check of CallTool that finds Transport.IsConnected
\* false returns its error in that step, with no Send, no Receive and no
\* request id issued, and leaves connected=false and initialized=false.
C20_CallToolChecksTransport ==
  [][\A c \in Callers :
       (pc[c] = "checkconn" /\ pc'[c] # "checkconn" /\ ~tConnected)
         => /\ op[c] = "tools/call"
            /\ pc'[c] = "done"
            /\ result'[c] = Outcome("conncheck", NilID)
            /\ ~connected' /\ ~initialized'
            /\ UNCHANGED <<requestID, transportVars>>]_vars

\* CallTool has failed its connection check on a session that was connected
\* and initialized until then
C20_Witness ==
  \E c \in Callers :
    /\ pc[c] = "done" /\ op[c] = "tools/call"
    /\ result[c].kind = "conncheck"
    /\ ~connected /\ ~initialized /\ ~tConnected
    /\ serverInfo = "server"

\* C21: a response matches the pending request n exactly when its id denotes
\* the integer n (as an integer, a float or a decimal numeric string); an
\* absent id, a non-integral number and a non-numeric string match no request.
C21_MatchesExactlySameInteger ==
  idPc = "done" => (matched <=> Denotes(responseID, pendingID))

\* C22: request ids are issued strictly increasing and never reused: the id a
\* request gets is greater than every id issued before it, by any caller and
\* on either side of a disconnect/reconnect, and the counter never goes back.
C22_RequestIdsFresh ==
  [][/\ requestID' >= requestID
     /\ \A c \in Callers :
          (reqId'[c] # reqId[c] /\ reqId'[c] # 0)
            => /\ reqId'[c] > requestID
               /\ requestID' = reqId'[c]
               /\ \A d \in Callers \ {c} : reqId'[d] < reqId'[c]]_vars

\* a request issued before a disconnect is still waiting (its connection was
\* closed under it) while a request issued after the reconnect waits as well
C22_Witness ==
  \E c, d \in Callers :
    /\ pc[c] = "receive" /\ interrupted[c] /\ reqId[c] >= 1
    /\ InRequest(d) /\ ~interrupted[d]
    /\ reqId[d] > reqId[c]
    /\ connected /\ tConnected

\* the message is a notification or a response to no pending request
Unsolicited(msg) ==
  \/ msg.method # ""
  \/ \A n \in Pending : ~Denotes(msg.id, n)

\* C23: while a request awaits its response, an inbound notification or a
\* response whose id matches no pending request is discarded: the waiting
\* request is neither completed nor failed and goes on waiting.
C23_UnsolicitedDiscarded ==
  [][\A c \in Callers :
       (/\ pc[c] = "receive" /\ pc'[c] # "receive"
        /\ wire # <<>> /\ wire' = Tail(wire)
        /\ Unsolicited(Head(wire)))
         => /\ pc'[c] = "select"
            /\ result'[c] = result[c]
            /\ UNCHANGED <<session, tConnected>>]_vars

\* C24: cancelling or timing out one caller's request aborts only that
\* caller's wait: connected and initialized stay as they are, the transport is
\* not closed, and no other caller's request is failed or loses its response.
C24_TimeoutAbortsOnlyItsCaller ==
  [][\A c \in Callers :
       (\/ ~expired[c] /\ expired'[c]
        \/ pc[c] = "select" /\ expired[c] /\ pc'[c] = "done")
         => /\ pc'[c] = "done" => result'[c].kind = "timeout"
            /\ UNCHANGED <<session, requestID, transportVars>>
            /\ \A d \in Callers \ {c} :
                 /\ pc'[d] = pc[d]
                 /\ result'[d] = result[d]
                 /\ reqId'[d] = reqId[d]
                 /\ interrupted'[d] = interrupted[d]]_vars

\* one caller has returned a timeout while another caller's request is in
\* flight on the still open session, its response yet to come
C24_Witness ==
  \E c, d \in Callers :
    /\ pc[c] = "done" /\ result[c].kind = "timeout"
    /\ InRequest(d) /\ reqId[d] \in peerInbox
    /\ connected /\ initialized /\ tConnected /\ ~broken

\* C25: on StreamingHTTPTransport a Receive that follows a Send returns the
\* response body of that Send's POST, never a response produced by an
\* earlier Send.
C25_ReceiveReturnsLatestResponse ==
  [][(/\ variant = "streaming"
      /\ hCall.op = "Send" /\ hCall.err = "nil"
      /\ hCall'.op = "Receive" /\ hCall'.msg # NoResponse)
       => hCall'.msg = PostResponse(sendSeq)]_vars

\* C26: on StreamingHTTPTransport every Send attaches the session token a
\* response header carried last since Close, and no token when none was
\* received since the transport was made or closed.
C26_SendAttachesLatestToken ==
  [][(variant = "streaming" /\ sendSeq' = sendSeq + 1 /\ hConnected)
       => hCall'.requests = <<HTTPRequest("POST", "endpoint", issued)>>]_vars

\* a Send has attached a token and its response brought the next one
C26_Witness ==
  /\ variant = "streaming"
  /\ hCall.op = "Send" /\ hCall.requests # <<>>
  /\ hCall.requests[1].token # ""
  /\ hSessionID \notin {"", hCall.requests[1].token}

\* C27: on SSETransport a request or notification sent before an initialize
\* Send has succeeded returns an error and issues no HTTP request.
C27_NoPostBeforeHandshake ==
  [][(/\ variant = "sse" /\ sendSeq' = sendSeq + 1
      /\ ~handshook /\ hCall'.method # "initialize")
       => hCall'.err # "nil" /\ hCall'.requests = <<>>]_vars

\* C28: on SSETransport Receive returns the response the most recent answered
\* Send buffered whenever one is present, consuming it and leaving the event
\* stream alone; it reads the stream only when no response is buffered.
C28_ReceivePrefersBuffered ==
  [][((\E taken \in 0..MaxStream : SSEReceive(taken)) /\ hConnected)
       => IF hLastResponse # NoResponse
          THEN /\ hLastResponse = PostResponse(answered)
               /\ hCall'.err = "nil" /\ hCall'.msg = hLastResponse
               /\ hLastResponse' = NoResponse
               /\ stream' = stream
          ELSE /\ hLastResponse' = NoResponse
               /\ hCall'.msg # NoResponse
                    => \E i \in 1..Len(stream) : hCall'.msg = stream[i]]_vars

\* the buffered response was returned while a message waited on the stream
C28_Witness ==
  /\ variant = "sse"
  /\ hCall.op = "Receive" /\ hCall.msg.src = "post"
  /\ Readable # {}

\* C29: on both HTTP transports Send and Receive called before Connect or
\* after Close return a not-connected error, make no HTTP request and hand
\* out no buffered message.
C29_NotConnectedNoIO ==
  [][(/\ ~hConnected
      /\ hCall'.op \in {"Send", "Receive"}
      /\ hCall' # hCall \/ sendSeq' # sendSeq)
       => /\ hCall'.err = "notconnected"
          /\ hCall'.requests = <<>>
          /\ hCall'.msg = NoResponse
          /\ UNCHANGED <<hLastResponse, stream, hSessionID, hSessionURL,
                         hSseConnection>>]_vars

\* Receive after Close has returned the error although a response is buffered
C29_Witness ==
  /\ ~hConnected
  /\ hCall.op = "Receive" /\ hCall.err = "notconnected"
  /\ hLastResponse # NoResponse

\* C31: Initialize leaves the session initialized only if it returns
\* success: whenever it returns an error, the failure to send the initialized
\* notification included, IsInitialized() is false afterwards.
C31_FailedInitializeNotInitialized ==
  [][\A c \in Callers :
       (/\ op[c] = "initialize" /\ pc[c] # "done" /\ pc'[c] = "done"
        /\ result'[c].kind # "ok")
         => ~initialized']_vars

\* C32: in every reachable state GetServerInfo and GetServerCapabilities
\* return non-nil exactly when the session is initialized; server info is
\* absent whenever initialized is false, also after a failed send or receive
\* has marked the connection dead.
C32_ServerInfoIffInitialized ==
  (serverInfo # "nil") <=> initialized

\* C33: when a list, read, get or Initialize request finds
\* Transport.IsConnected false before sending, the operation returns an error
\* without calling Send and the session is marked connected = false and
\* initialized = false.
C33_DeadTransportMarksSession ==
  [][\A c \in Callers :
       (pc[c] = "isconn" /\ pc'[c] = "done")
         => /\ result'[c].kind = "transportdisconnected"
            /\ UNCHANGED transportVars
            /\ ~connected' /\ ~initialized']_vars


\* C35: on both HTTP transports a Connect that follows a Close yields a
\* transport with no buffered response, so that no Receive made after the
\* Connect returns a response that a Send buffered before the Close
C35_ReconnectHasNoBufferedResponse ==
  [][(hCall.op = "Close" /\ hCall'.op = "Connect")
       => hLastResponse' = NoResponse]_vars


\* C36: on the event-stream transport at most one event-stream connection is
\* open at any time, and when Close has returned every event stream that was
\* opened has been closed
C36_OneStreamClosedByClose ==
  /\ openStreams <= 1
  /\ hCall.op = "Close" => openStreams = 0


\* C38: on the event-stream transport the Receive calls that fall back to the
\* retained stream return its well-formed data events in stream order, each
\* once and none skipped: a Receive that returns an event of the stream returns
\* the one that follows the event returned last (the first one on a new stream)
C38_StreamEventsInOrder ==
  [][(hCall' # hCall /\ hCall'.op = "Receive" /\ hCall'.msg.src = "stream")
       => hCall'.msg.n = delivered + 1]_vars


\* C34: on both HTTP transports the buffered-response slot is used under
\* mutual exclusion even when several tasks call Send and Receive at once: when
\* a Receive returns the buffered response, the slot still holds the response
\* it read (it wipes out no response a Send stored meanwhile) and no other
\* Receive has returned that response
C34_BufferedResponseReturnedOnce ==
  [][\A t \in Tasks :
       (tpc[t] = "clear" /\ tpc'[t] = "idle")
         => /\ hLastResponse = tlocal[t]
            /\ \A u \in Tasks \ {t} : got[u] # tlocal[t]]_vars


\* C37: on the event-stream transport a Close that has been called does not
\* wait for a Receive that is blocked waiting for the next event of the retained
\* stream, and an IsConnected that has been called does not block behind such a
\* Receive: while the only holders of the lock are Receives reading the stream,
\* the waiting Close can go on, and so can the waiting IsConnected
C37_CloseNotBehindReceive ==
  \A t \in Tasks :
    (variant = "sse" /\ \A u \in Readers : tpc[u] = "scan")
      => /\ tpc[t] = "closewait" => ENABLED CloseAcquire(t)
         /\ (tpc[t] = "connwait" /\ Readers # {}) => ENABLED IsConnectedAcquire(t)


\* C39: for every request operation, a matching response that carries
\* neither a result nor an error object makes the operation return an error,
\* not a success, and Initialize does not go on to mark the session
\* initialized or to store server information
C39_BareResponseIsAnError ==
  [][\A c \in Callers :
       (/\ pc[c] = "receive" /\ pc'[c] # "receive"
        /\ wire # <<>> /\ wire' = Tail(wire)
        /\ isMatchingID(Head(wire).id, reqId[c])
        /\ Head(wire).kind = "bare")
         => /\ pc'[c] = "done"
            /\ result'[c].kind = "parseerror"
            /\ UNCHANGED <<initialized, serverInfo>>]_vars

\* an Initialize of a session that is not initialized has returned the parse
\* error of a bare response
C39_Witness ==
  \E c \in Callers :
    /\ pc[c] = "done" /\ op[c] = "initialize"
    /\ result[c].kind = "parseerror"
    /\ ~initialized

====
